---- MODULE Spec2Model ----
(***************************************************************************)
(* A model of casdoor.async_main.AsyncCasdoorSDK: the payload builder, the *)
(* JWT verifier, the asynchronous facade calls and the lifecycle of the    *)
(* aiohttp session the SDK owns.                                           *)
(*                                                                         *)
(* Python values are modelled as follows.  A str is a TLA+ string, None is *)
(* the value None below, a dict is a function whose domain is its set of   *)
(* keys, a decoded JSON value is a tagged record [t |-> type, v |-> value].*)
(* A finished call is [kind |-> "return", value |-> v] or                  *)
(* [kind |-> "raise", exc |-> name of the exception].                      *)
(***************************************************************************)
EXTENDS Integers, Sequences, FiniteSets, Bags, TLC

VARIABLES
  self,     \* the SDK object's configuration fields (set by __init__)
  pure,     \* one call of a synchronous method: [fn, args, pc, ret]
  calls,    \* the bag of coroutines of the facade in flight: [op, args, request]
  last,     \* the facade call that completed most recently: [op, response, ret]
  heap,     \* the caller's User objects, by reference
  heap0,    \* the same objects as the caller built them
  server,   \* the users the Casdoor server stores, by id
  sdk,      \* "alive" | "deleted": whether __del__ has run
  loop,     \* "running" | "stopped": the asyncio event loop
  tasks,    \* close() tasks scheduled on the loop and not yet run
  session,  \* "open" | "closed": self._session
  closes    \* how many times self._session.close() has run

vars == <<self, pure, calls, last, heap, heap0, server, sdk, loop, tasks,
          session, closes>>

-----------------------------------------------------------------------------
(* Bounds of the model *)

\* Number of distinct non-empty strings an argument is drawn from.
MaxStr == 2
\* Number of coroutines of the facade that can be in flight at once.
MaxCalls == 2
\* Number of User objects the caller holds.
MaxUsers == 1

StrPool == <<"alice", "bob", "carol", "dave">>
NonEmptyStrs == {StrPool[i] : i \in 1..MaxStr}

-----------------------------------------------------------------------------
(* Python values *)

None == "<None>"

\* Python's True and False.
PyTrue == "True"
PyFalse == "False"

\* Optional[str] arguments: absent, the empty string, a non-empty string.
OptStr == {None, ""} \cup NonEmptyStrs

\* The truth value of an Optional[str] in `if code:` / `username and password`.
Truthy(s) == s # None /\ s # ""

Return(v) == [kind |-> "return", value |-> v]
Raise(e) == [kind |-> "raise", exc |-> e]
NoRet == [kind |-> "none"]

\* dict.get(key): the value, or None when the key is missing.
DictGet(d, key) == IF key \in DOMAIN d THEN d[key] ELSE None

-----------------------------------------------------------------------------
(* Construction *)

\* str.replace(":8000", ":7001") on the endpoints of the model.
ReplacePort(endpoint) ==
  IF endpoint = "http://localhost:8000" THEN "http://localhost:7001"
  ELSE endpoint

__init__(endpoint, client_id, client_secret, certificate, org_name, application_name, front_endpoint) ==
  [endpoint         |-> endpoint,
   front_endpoint   |-> IF Truthy(front_endpoint) THEN front_endpoint
                        ELSE ReplacePort(endpoint),
   client_id        |-> client_id,
   client_secret    |-> client_secret,
   certificate      |-> certificate,
   org_name         |-> org_name,
   application_name |-> application_name,
   grant_type       |-> "authorization_code",
   algorithms       |-> <<"RS256">>]

\* Certificates: what the caller passes as `certificate`.  type is the
\* Python type of the value, pem whether its text is a PEM X.509
\* certificate, key the public key that certificate holds.
Keys == {"k1", "k2"}
NoKey == "<no key>"
Certificates ==
  {[type |-> t, pem |-> TRUE, key |-> k] : t \in {"str", "bytes"}, k \in Keys}
  \cup {[type |-> t, pem |-> FALSE, key |-> NoKey] : t \in {"str", "bytes"}}

GoodCertificate == [type |-> "str", pem |-> TRUE, key |-> "k1"]

SDKWith(certificate) ==
  __init__("http://localhost:8000", "client-id", "client-secret", certificate,
           "org", "app", None)

-----------------------------------------------------------------------------
(* Payload builder *)

__get_payload_for_authorization_code(obj, code) ==
  [grant_type    |-> "authorization_code",
   client_id     |-> obj.client_id,
   client_secret |-> obj.client_secret,
   code          |-> code]

\* A slip in the password payload: the two credentials exchanged.
PasswordPayloadSwapped(obj, username, password) ==
  [grant_type    |-> "password",
   client_id     |-> obj.client_id,
   client_secret |-> obj.client_secret,
   username      |-> password,
   password      |-> username]

__get_payload_for_password_credentials(obj, username, password) ==
  [grant_type    |-> "password",
   client_id     |-> obj.client_id,
   client_secret |-> obj.client_secret,
   username      |-> username,
   password      |-> password]

__get_payload_for_client_credentials(obj) ==
  [grant_type    |-> "client_credentials",
   client_id     |-> obj.client_id,
   client_secret |-> obj.client_secret]

\* A slip in the order of the strategy: the credentials are looked at first.
PayloadCredentialsFirst(obj, code, username, password) ==
  IF Truthy(username) /\ Truthy(password)
  THEN __get_payload_for_password_credentials(obj, username, password)
  ELSE IF Truthy(code)
  THEN __get_payload_for_authorization_code(obj, code)
  ELSE __get_payload_for_client_credentials(obj)

\* A slip in the test of the credentials: either one is enough.
PayloadEitherCredential(obj, code, username, password) ==
  IF Truthy(code)
  THEN __get_payload_for_authorization_code(obj, code)
  ELSE IF Truthy(username) \/ Truthy(password)
  THEN __get_payload_for_password_credentials(obj, username, password)
  ELSE __get_payload_for_client_credentials(obj)

_get_payload_for_access_token_request(obj, code, username, password) ==
  IF Truthy(code)
  THEN __get_payload_for_authorization_code(obj, code)
  ELSE IF Truthy(username) /\ Truthy(password)
  THEN __get_payload_for_password_credentials(obj, username, password)
  ELSE __get_payload_for_client_credentials(obj)

-----------------------------------------------------------------------------
(* JWT verifier *)

\* self.certification: the certificate text as bytes.
certification(obj) ==
  IF obj.certificate.type # "str"
  THEN Raise("TypeError")
  ELSE Return([obj.certificate EXCEPT !.type = "bytes"])

\* x509.load_pem_x509_certificate(data, backend)
load_pem_x509_certificate(data) ==
  IF data.pem THEN Return(data) ELSE Raise("CertificateError")

\* certificate.public_key()
public_key(certificate) == certificate.key

\* Bearer tokens.  wellformed: the token has three decodable parts; alg:
\* the algorithm its header names; signedBy: the key whose signature it
\* carries; payload: the claims.
Algs == {"RS256", "HS256", "none"}
Audiences == {"client-id", "other-client", None}
Payloads ==
  {[aud |-> a, exp |-> e, sub |-> "org/alice"] :
      a \in Audiences, e \in {"past", "future"}}
MalformedToken ==
  [wellformed |-> FALSE, alg |-> "none", signedBy |-> NoKey,
   payload |-> [aud |-> None, exp |-> "past", sub |-> "org/alice"]]
Tokens ==
  {[wellformed |-> TRUE, alg |-> a, signedBy |-> k, payload |-> p] :
      a \in Algs, k \in Keys \cup {NoKey}, p \in Payloads}
  \cup {MalformedToken}

Range(seq) == {seq[i] : i \in DOMAIN seq}

\* jwt.decode(token, key, algorithms=..., audience=...)
jwt_decode(token, key, algorithms, audience) ==
  IF ~token.wellformed THEN Raise("MalformedTokenError")
  ELSE IF token.alg \notin Range(algorithms) THEN Raise("InvalidAlgorithmError")
  ELSE IF token.signedBy # key THEN Raise("SignatureError")
  ELSE IF token.payload.exp = "past" THEN Raise("TokenExpiredError")
  ELSE IF token.payload.aud # audience THEN Raise("AudienceMismatchError")
  ELSE Return(token.payload)

\* A slip in the allow-list: the algorithm the token itself names is accepted.
ParseTrustingTokenAlg(obj, token) ==
  LET data == certification(obj) IN
  IF data.kind = "raise" THEN data
  ELSE LET certificate == load_pem_x509_certificate(data.value) IN
       IF certificate.kind = "raise" THEN certificate
       ELSE jwt_decode(token, public_key(certificate.value),
                       <<token.alg>>, obj.client_id)

parse_jwt_token(obj, token) ==
  LET data == certification(obj) IN
  IF data.kind = "raise" THEN data
  ELSE LET certificate == load_pem_x509_certificate(data.value) IN
       IF certificate.kind = "raise" THEN certificate
       ELSE jwt_decode(token, public_key(certificate.value),
                       obj.algorithms, obj.client_id)

-----------------------------------------------------------------------------
(* HTTP: requests, responses and the Casdoor server *)

\* json.dumps(value): the JSON text of a value; json_loads reads it back.
json_dumps(value) == [json |-> value]
json_loads(text) == text.json

\* Decoded JSON values, as response.json() gives them.
JsonObject(d) == [t |-> "object", v |-> d]
JsonBool(b) == [t |-> "bool", v |-> b]
JsonStr(x) == [t |-> "str", v |-> x]
JsonInt(n) == [t |-> "int", v |-> n]
JsonArray(xs) == [t |-> "array", v |-> xs]
JsonNull == [t |-> "null"]

\* isinstance(value, bool)
IsBool(value) == value.t = "bool"

JsonHeaders == "content-type" :> "application/json"
OkResponse(body) == [status |-> 200, headers |-> JsonHeaders, body |-> body]

\* What the token endpoints may answer: a token, a token response without
\* access_token, the server's error object.
TokenResponses ==
  {OkResponse(JsonObject([access_token |-> "tok123", token_type |-> "Bearer"])),
   OkResponse(JsonObject([token_type |-> "Bearer"])),
   OkResponse(JsonObject([error |-> "invalid_grant"]))}

\* What /api/enforce may answer.
ContentTypes == {"application/json", "text/html"}
EnforceHeaders ==
  {"content-type" :> c : c \in ContentTypes} \cup {[h \in {} |-> ""]}
EnforceBodies ==
  {JsonBool(PyTrue), JsonBool(PyFalse), JsonStr("Unauthorized")}
EnforceResponses ==
  {[status |-> s, headers |-> h, body |-> b] :
      s \in {200, 403}, h \in EnforceHeaders, b \in EnforceBodies}

\* "json" in content_type, on the content types of the model.
ContainsJson(content_type) == content_type = "application/json"

Remove(store, id) == [k \in DOMAIN store \ {id} |-> store[k]]
Put(store, id, doc) ==
  [k \in DOMAIN store \cup {id} |-> IF k = id THEN doc ELSE store[k]]
UsersOf(store, owner) ==
  {store[k] : k \in {x \in DOMAIN store : store[x].owner = owner}}

\* A server that stores what it receives: the store after a request.
ServerStore(store, request, api) ==
  IF request.url = api \o "/api/add-user"
  THEN Put(store, request.params.id, json_loads(request.data))
  ELSE IF request.url = api \o "/api/update-user"
          /\ request.params.id \in DOMAIN store
  THEN Put(store, request.params.id, json_loads(request.data))
  ELSE IF request.url = api \o "/api/delete-user"
  THEN Remove(store, request.params.id)
  ELSE store

\* The answers the server may give to a request.
ServerResponses(store, request, api) ==
  IF request.url = api \o "/api/enforce" THEN EnforceResponses
  ELSE IF request.url \in {api \o "/api/login/oauth/access_token",
                           api \o "/api/login/oauth/refresh_token"}
  THEN TokenResponses
  ELSE IF request.url = api \o "/api/get-user"
  THEN {OkResponse(IF request.params.id \in DOMAIN store
                   THEN JsonObject(store[request.params.id])
                   ELSE JsonNull)}
  ELSE IF request.url = api \o "/api/get-users"
  THEN {OkResponse(JsonArray(UsersOf(store, request.params.owner)))}
  ELSE IF request.url = api \o "/api/get-user-count"
  THEN {OkResponse(JsonInt(Cardinality(UsersOf(store, request.params.owner))))}
  ELSE {OkResponse(JsonObject([status |-> "ok"]))}

-----------------------------------------------------------------------------
(* Facade: what each coroutine sends, and what it makes of the response *)

\* oauth_token_request / _oauth_token_request
oauth_token_request(obj, args) ==
  [method |-> "POST",
   url    |-> obj.endpoint \o "/api/login/oauth/access_token",
   data   |-> _get_payload_for_access_token_request(
                obj, args.code, args.username, args.password)]

\* get_oauth_token: the decoded response, as it is.
get_oauth_token(response) == Return(response.body)

refresh_token_request(obj, args) ==
  [method |-> "POST",
   url    |-> obj.endpoint \o "/api/login/oauth/refresh_token",
   data   |-> [grant_type    |-> "refresh_token",
               client_id     |-> obj.client_id,
               client_secret |-> obj.client_secret,
               scope         |-> args.scope,
               refresh_token |-> args.refresh_token]]

\* A slip: the field is subscripted, and a response without it raises.
RefreshSubscripts(response) ==
  IF response.body.t # "object" THEN Raise("TypeError")
  ELSE IF "access_token" \in DOMAIN response.body.v
  THEN Return(response.body.v["access_token"])
  ELSE Raise("KeyError")

\* refresh_oauth_token: r.get("access_token")
refresh_oauth_token(response) ==
  IF response.body.t # "object" THEN Raise("AttributeError")
  ELSE Return(DictGet(response.body.v, "access_token"))

enforce_request(obj, args) ==
  [method |-> "POST",
   url    |-> obj.endpoint \o "/api/enforce",
   params |-> [clientId |-> obj.client_id, clientSecret |-> obj.client_secret],
   json   |-> [id |-> args.permission_model_name,
               v0 |-> args.sub, v1 |-> args.obj, v2 |-> args.act,
               v3 |-> args.v3, v4 |-> args.v4, v5 |-> args.v5]]

\* enforce, from the response on.  `or` does not look at the header when
\* the status is not 200; headers["content-type"] raises KeyError when the
\* response has no such header.
enforce(response) ==
  IF response.status # 200 THEN Raise("ValueError")
  ELSE IF "content-type" \notin DOMAIN response.headers THEN Raise("KeyError")
  ELSE IF ~ContainsJson(response.headers["content-type"])
  THEN Raise("ValueError")
  ELSE IF ~IsBool(response.body) THEN Raise("ValueError")
  ELSE Return(response.body)

get_users_request(obj) ==
  [method |-> "GET",
   url    |-> obj.endpoint \o "/api/get-users",
   params |-> [owner |-> obj.org_name, clientId |-> obj.client_id,
               clientSecret |-> obj.client_secret]]

get_user_request(obj, args) ==
  [method |-> "GET",
   url    |-> obj.endpoint \o "/api/get-user",
   params |-> [id |-> obj.org_name \o "/" \o args.user_id,
               clientId |-> obj.client_id,
               clientSecret |-> obj.client_secret]]

\* Optional[bool] arguments.
OptBool == {None, PyTrue, PyFalse}

\* A slip: the two filter values exchanged.
GetUserCountSwapped(obj, args) ==
  [method |-> "GET",
   url    |-> obj.endpoint \o "/api/get-user-count",
   params |-> [owner |-> obj.org_name, clientId |-> obj.client_id,
               clientSecret |-> obj.client_secret,
               isOnline |-> IF args.is_online = None THEN ""
                            ELSE IF args.is_online = PyTrue THEN "0" ELSE "1"]]

get_user_count_request(obj, args) ==
  [method |-> "GET",
   url    |-> obj.endpoint \o "/api/get-user-count",
   params |-> [owner |-> obj.org_name, clientId |-> obj.client_id,
               clientSecret |-> obj.client_secret,
               isOnline |-> IF args.is_online = None THEN ""
                            ELSE IF args.is_online = PyTrue THEN "1" ELSE "0"]]

\* get_users, get_user, get_user_count, modify_user: the decoded response.
passthrough(response) == Return(response.body)

\* User.to_dict(): the object's fields as a dict.
to_dict(user) == [k \in {"owner", "name"} |->
                    IF k = "owner" THEN user.owner ELSE user.name]

\* A slip: the caller's owner is kept.
ModifyUserKeepsOwner(obj, method, user) ==
  [user    |-> user,
   request |->
     [method |-> "POST",
      url    |-> obj.endpoint \o "/api/" \o method,
      params |-> [id |-> user.owner \o "/" \o user.name,
                  clientId |-> obj.client_id,
                  clientSecret |-> obj.client_secret],
      data   |-> json_dumps(to_dict(user))]]

\* A slip: the id is built before the owner is overwritten.
ModifyUserIdBeforeOwner(obj, method, user) ==
  LET updated == [user EXCEPT !.owner = obj.org_name] IN
  [user    |-> updated,
   request |->
     [method |-> "POST",
      url    |-> obj.endpoint \o "/api/" \o method,
      params |-> [id |-> user.owner \o "/" \o user.name,
                  clientId |-> obj.client_id,
                  clientSecret |-> obj.client_secret],
      data   |-> json_dumps(to_dict(updated))]]

\* modify_user up to the request: the User object as the call leaves it,
\* and the request sent.
modify_user(obj, method, user) ==
  LET updated == [user EXCEPT !.owner = obj.org_name] IN
  [user    |-> updated,
   request |->
     [method |-> "POST",
      url    |-> obj.endpoint \o "/api/" \o method,
      params |-> [id |-> updated.owner \o "/" \o updated.name,
                  clientId |-> obj.client_id,
                  clientSecret |-> obj.client_secret],
      data   |-> json_dumps(to_dict(updated))]]

MethodOf(op) ==
  CASE op = "add_user" -> "add-user"
    [] op = "update_user" -> "update-user"
    [] op = "delete_user" -> "delete-user"

\* The result of a facade call, from the response to its request.
ResultOf(op, response) ==
  CASE op = "get_oauth_token" -> get_oauth_token(response)
    [] op = "refresh_oauth_token" -> refresh_oauth_token(response)
    [] op = "enforce" -> enforce(response)
    [] OTHER -> passthrough(response)

-----------------------------------------------------------------------------
(* The synchronous calls: the caller's arguments are drawn in the initial  *)
(* state, the one action applies the method to them.                       *)

NoPure == [fn |-> "none", args |-> <<>>, pc |-> "done", ret |-> NoRet]
NoLast == [op |-> "none"]

Quiet ==
  /\ calls = EmptyBag
  /\ last = NoLast
  /\ heap = [u \in 1..MaxUsers |-> [owner |-> "org", name |-> StrPool[u]]]
  /\ heap0 = heap
  /\ server = [n \in {} |-> None]
  /\ sdk = "alive"
  /\ loop = "running"
  /\ tasks = 0
  /\ session = "open"
  /\ closes = 0

UnchangedFacade ==
  UNCHANGED <<self, calls, last, heap, heap0, server, sdk, loop, tasks,
              session, closes>>

InitPayload ==
  /\ self = SDKWith(GoodCertificate)
  /\ pure \in {[fn |-> "_get_payload_for_access_token_request",
                args |-> [code |-> c, username |-> u, password |-> p],
                pc |-> "call", ret |-> NoRet] :
                  c \in OptStr, u \in OptStr, p \in OptStr}
  /\ Quiet

CallGetPayload ==
  /\ pure.fn = "_get_payload_for_access_token_request"
  /\ pure.pc = "call"
  /\ pure' = [pure EXCEPT
       !.pc = "done",
       !.ret = Return(_get_payload_for_access_token_request(
                        self, pure.args.code, pure.args.username,
                        pure.args.password))]
  /\ UnchangedFacade

NextPayload == CallGetPayload

SpecPayload == InitPayload /\ [][NextPayload]_vars

InitJwt ==
  /\ self \in {SDKWith(c) : c \in Certificates}
  /\ pure \in {[fn |-> "parse_jwt_token", args |-> [token |-> t],
                pc |-> "call", ret |-> NoRet] : t \in Tokens}
  /\ Quiet

CallParseJwtToken ==
  /\ pure.fn = "parse_jwt_token"
  /\ pure.pc = "call"
  /\ pure' = [pure EXCEPT
       !.pc = "done",
       !.ret = parse_jwt_token(self, pure.args.token)]
  /\ UnchangedFacade

NextJwt == CallParseJwtToken

SpecJwt == InitJwt /\ [][NextJwt]_vars

-----------------------------------------------------------------------------
(* The facade and the lifecycle of the session.  A coroutine runs from its *)
(* call to its first await in one step (the request is built and sent),    *)
(* and from the response to its return in another.                         *)

SDK0 == SDKWith(GoodCertificate)
Owners == {"org", "other-org"}
UserNames == {StrPool[u] : u \in 1..MaxUsers}
NoArgs == [k \in {} |-> None]

Init ==
  /\ self = SDK0
  /\ pure = NoPure
  /\ calls = EmptyBag
  /\ last = NoLast
  /\ heap \in [1..MaxUsers -> [owner : Owners, name : UserNames]]
  /\ \A u \in 1..MaxUsers : heap[u].name = StrPool[u]
  /\ heap0 = heap
  /\ server = [n \in {} |-> None]
  /\ sdk = "alive"
  /\ loop = "running"
  /\ tasks = 0
  /\ session = "open"
  /\ closes = 0

Frame(op, args, request) == [op |-> op, args |-> args, request |-> request]

\* A coroutine is called and runs to its first await: the request is sent.
Send(op, args, request) ==
  /\ sdk = "alive"
  /\ loop = "running"
  /\ BagCardinality(calls) < MaxCalls
  /\ calls' = calls (+) SetToBag({Frame(op, args, request)})

Idle == calls = EmptyBag

CredentialArgs ==
  {[code |-> "code-1", username |-> None, password |-> None],
   [code |-> None, username |-> "alice", password |-> "secret-1"],
   [code |-> None, username |-> None, password |-> None]}

Call_get_oauth_token ==
  \E args \in CredentialArgs :
    /\ Send("get_oauth_token", args, oauth_token_request(self, args))
    /\ UNCHANGED <<self, pure, last, heap, heap0, server, sdk, loop, tasks,
                   session, closes>>

Call_refresh_oauth_token ==
  \E scope \in {"", "read"} :
    LET args == [refresh_token |-> "refresh-1", scope |-> scope] IN
    /\ Send("refresh_oauth_token", args, refresh_token_request(self, args))
    /\ UNCHANGED <<self, pure, last, heap, heap0, server, sdk, loop, tasks,
                   session, closes>>

Call_enforce ==
  LET args == [permission_model_name |-> "org/model", sub |-> "alice",
               obj |-> "data1", act |-> "read",
               v3 |-> None, v4 |-> None, v5 |-> None] IN
  /\ Send("enforce", args, enforce_request(self, args))
  /\ UNCHANGED <<self, pure, last, heap, heap0, server, sdk, loop, tasks,
                 session, closes>>

Call_get_users ==
  /\ Send("get_users", NoArgs, get_users_request(self))
  /\ UNCHANGED <<self, pure, last, heap, heap0, server, sdk, loop, tasks,
                 session, closes>>

Call_get_user ==
  \E user_id \in UserNames :
    LET args == [user_id |-> user_id] IN
    /\ Send("get_user", args, get_user_request(self, args))
    /\ UNCHANGED <<self, pure, last, heap, heap0, server, sdk, loop, tasks,
                   session, closes>>

Call_get_user_count ==
  \E is_online \in OptBool :
    LET args == [is_online |-> is_online] IN
    /\ Send("get_user_count", args, get_user_count_request(self, args))
    /\ UNCHANGED <<self, pure, last, heap, heap0, server, sdk, loop, tasks,
                   session, closes>>

\* add_user, update_user, delete_user: modify_user with the method's name.
\* The User object is passed by reference and written before the await.
CallModify(op) ==
  \E user \in 1..MaxUsers :
    LET m == modify_user(self, MethodOf(op), heap[user]) IN
    /\ Send(op, [user |-> user], m.request)
    /\ heap' = [heap EXCEPT ![user] = m.user]
    /\ UNCHANGED <<self, pure, last, heap0, server, sdk, loop, tasks,
                   session, closes>>

Call_add_user == CallModify("add_user")
Call_update_user == CallModify("update_user")
Call_delete_user == CallModify("delete_user")

\* The server handles the request of a coroutine in flight and answers; the
\* coroutine resumes and returns or raises.
Respond ==
  \E call \in BagToSet(calls) :
    /\ loop = "running"
    /\ \E response \in ServerResponses(server, call.request, self.endpoint) :
         last' = [op |-> call.op, response |-> response,
                  ret |-> ResultOf(call.op, response)]
    /\ server' = ServerStore(server, call.request, self.endpoint)
    /\ calls' = calls (-) SetToBag({call})
    /\ UNCHANGED <<self, pure, heap, heap0, sdk, loop, tasks, session, closes>>

\* The event loop ends once the coroutines the caller awaits have returned;
\* tasks still scheduled on it never run.
StopLoop ==
  /\ loop = "running"
  /\ Idle
  /\ loop' = "stopped"
  /\ UNCHANGED <<self, pure, calls, last, heap, heap0, server, sdk, tasks,
                 session, closes>>

\* __del__ with a loop running: session.close() is scheduled as a task.
\* The object is collected once no coroutine holds it.
Del_Scheduled ==
  /\ sdk = "alive"
  /\ Idle
  /\ loop = "running"
  /\ sdk' = "deleted"
  /\ tasks' = tasks + 1
  /\ UNCHANGED <<self, pure, calls, last, heap, heap0, server, loop,
                 session, closes>>

\* __del__ with no loop running: get_running_loop() raises RuntimeError,
\* which Python ignores in __del__; nothing is scheduled.
Del_NoLoop ==
  /\ sdk = "alive"
  /\ Idle
  /\ loop = "stopped"
  /\ sdk' = "deleted"
  /\ UNCHANGED <<self, pure, calls, last, heap, heap0, server, loop, tasks,
                 session, closes>>

\* The loop runs the scheduled task: self._session.close().
RunCloseTask ==
  /\ loop = "running"
  /\ tasks > 0
  /\ tasks' = tasks - 1
  /\ session' = "closed"
  /\ closes' = closes + 1
  /\ UNCHANGED <<self, pure, calls, last, heap, heap0, server, sdk, loop>>

Next ==
  \/ Call_get_oauth_token
  \/ Call_refresh_oauth_token
  \/ Call_enforce
  \/ Call_get_users
  \/ Call_get_user
  \/ Call_get_user_count
  \/ Call_add_user
  \/ Call_update_user
  \/ Call_delete_user
  \/ Respond
  \/ StopLoop
  \/ Del_Scheduled
  \/ Del_NoLoop
  \/ RunCloseTask

Spec == Init /\ [][Next]_vars

-----------------------------------------------------------------------------
(* Claims about the payload builder (checked under SpecPayload) *)

PayloadDone ==
  pure.fn = "_get_payload_for_access_token_request" /\ pure.pc = "done"

AuthorizationCodePayload(code) ==
  [grant_type |-> "authorization_code", client_id |-> self.client_id,
   client_secret |-> self.client_secret, code |-> code]

PasswordPayload(username, password) ==
  [grant_type |-> "password", client_id |-> self.client_id,
   client_secret |-> self.client_secret, username |-> username,
   password |-> password]

ClientCredentialsPayload ==
  [grant_type |-> "client_credentials", client_id |-> self.client_id,
   client_secret |-> self.client_secret]

\* C1, as stated: whenever code is present (not None), whatever username and
\* password are, the result is exactly the authorization-code payload.
C1_CodePresentGivesAuthorizationCode ==
  (PayloadDone /\ pure.args.code # None)
    => pure.ret = Return(AuthorizationCodePayload(pure.args.code))

\* C1, amended: whenever code is a non-empty string, whatever username and
\* password are, the result is exactly the authorization-code payload.
C1_NonEmptyCodeGivesAuthorizationCode ==
  (PayloadDone /\ pure.args.code \notin {None, ""})
    => pure.ret = Return(AuthorizationCodePayload(pure.args.code))

\* C1 witness: a non-empty code given together with both credentials.
C1_Witness ==
  /\ PayloadDone
  /\ pure.args.code \in NonEmptyStrs
  /\ pure.args.username \in NonEmptyStrs
  /\ pure.args.password \in NonEmptyStrs
  /\ pure.ret.value.grant_type = "authorization_code"

\* C2, as stated: code absent (None) and username and password both present
\* (not None) give exactly the password payload with the caller's values.
C2_CredentialsPresentGivePassword ==
  (PayloadDone /\ pure.args.code = None
     /\ pure.args.username # None /\ pure.args.password # None)
    => /\ pure.ret = Return(PasswordPayload(pure.args.username,
                                            pure.args.password))
       /\ "code" \notin DOMAIN pure.ret.value

\* C2, amended: code absent and username and password both non-empty give
\* exactly the password payload with the caller's values, and no code field.
C2_NonEmptyCredentialsGivePassword ==
  (PayloadDone /\ pure.args.code = None
     /\ pure.args.username \notin {None, ""}
     /\ pure.args.password \notin {None, ""})
    => /\ pure.ret = Return(PasswordPayload(pure.args.username,
                                            pure.args.password))
       /\ "code" \notin DOMAIN pure.ret.value

\* C2 witness: no code, two different non-empty credentials.
C2_Witness ==
  /\ PayloadDone
  /\ pure.args.code = None
  /\ pure.args.username \in NonEmptyStrs
  /\ pure.args.password \in NonEmptyStrs
  /\ pure.args.username # pure.args.password
  /\ pure.ret.value.grant_type = "password"

\* C3: every input that is neither "code present" nor "code absent with
\* username and password present" gives exactly the client-credentials
\* payload (no code, username or password field) and the call returns; and
\* every input gives exactly one of the three grant variants.
C3_OtherInputsGiveClientCredentials ==
  PayloadDone =>
    /\ pure.ret.kind = "return"
    /\ pure.ret.value.grant_type
         \in {"authorization_code", "password", "client_credentials"}
    /\ pure.ret.value \in
         {AuthorizationCodePayload(pure.args.code),
          PasswordPayload(pure.args.username, pure.args.password),
          ClientCredentialsPayload}
    /\ (pure.args.code = None
          /\ (pure.args.username = None \/ pure.args.password = None))
        => /\ pure.ret = Return(ClientCredentialsPayload)
           /\ DOMAIN pure.ret.value
                = {"grant_type", "client_id", "client_secret"}

\* C3 witness: a username without a password.
C3_Witness ==
  /\ PayloadDone
  /\ pure.args.code = None
  /\ pure.args.username \in NonEmptyStrs
  /\ pure.args.password = None
  /\ pure.ret.value.grant_type = "client_credentials"

-----------------------------------------------------------------------------
(* Claims about the JWT verifier (checked under SpecJwt) *)

JwtDone == pure.fn = "parse_jwt_token" /\ pure.pc = "done"

JwtAcceptable ==
  /\ self.certificate.type = "str"
  /\ self.certificate.pem
  /\ pure.args.token.wellformed
  /\ pure.args.token.signedBy = self.certificate.key
  /\ pure.args.token.alg = "RS256"
  /\ pure.args.token.payload.aud = self.client_id
  /\ pure.args.token.payload.exp = "future"

\* C4: parse_jwt_token returns claims only when the certificate parses, the
\* signature verifies against the certificate's key, the algorithm is RS256,
\* the audience equals client_id and the token is not expired; in every
\* other case it raises and returns no claims.
C4_JwtFailsClosed ==
  JwtDone =>
    /\ pure.ret.kind \in {"return", "raise"}
    /\ pure.ret.kind = "return" =>
         (JwtAcceptable /\ pure.ret.value = pure.args.token.payload)
    /\ ~JwtAcceptable => pure.ret.kind = "raise"

\* C4 witness: signature, algorithm and expiry are valid and the audience is
\* another client's: the call raises.
C4_Witness ==
  /\ JwtDone
  /\ self.certificate = GoodCertificate
  /\ pure.args.token.wellformed
  /\ pure.args.token.signedBy = "k1"
  /\ pure.args.token.alg = "RS256"
  /\ pure.args.token.payload.exp = "future"
  /\ pure.args.token.payload.aud = "other-client"
  /\ pure.ret = Raise("AudienceMismatchError")

\* A token that verifies is accepted with its claims.
C4_AcceptedWitness ==
  JwtDone /\ JwtAcceptable /\ pure.ret = Return(pure.args.token.payload)

-----------------------------------------------------------------------------
(* Claims about the facade and the session (checked under Spec) *)

InFlight == BagToSet(calls)

EnforceResponseGood(r) ==
  /\ r.status = 200
  /\ "content-type" \in DOMAIN r.headers
  /\ ContainsJson(r.headers["content-type"])
  /\ IsBool(r.body)

\* C5: enforce returns exactly the boolean of the body when the status is
\* 200, the content-type is JSON and the body is a boolean, and raises
\* ValueError for every other response.
C5_EnforceReturnsBodyOrRaisesValueError ==
  last.op = "enforce" =>
    /\ EnforceResponseGood(last.response)
         => last.ret = Return(last.response.body)
    /\ ~EnforceResponseGood(last.response)
         => last.ret = Raise("ValueError")

\* C5, the part the code keeps: enforce returns a value only for a good
\* response, and then the body's boolean; otherwise it raises.
C5_EnforceFailsClosed ==
  last.op = "enforce" =>
    /\ last.ret.kind \in {"return", "raise"}
    /\ last.ret.kind = "return"
         <=> EnforceResponseGood(last.response)
    /\ last.ret.kind = "return" => last.ret.value = last.response.body

\* C6: refresh_oauth_token sends the refresh payload to the refresh
\* endpoint, returns the access_token of the decoded response when it has
\* one, and returns None without raising when it has none.
C6_RefreshReturnsAccessTokenOrNone ==
  /\ \A c \in InFlight :
       c.op = "refresh_oauth_token" =>
         c.request =
           [method |-> "POST",
            url    |-> "http://localhost:8000/api/login/oauth/refresh_token",
            data   |-> [grant_type    |-> "refresh_token",
                        client_id     |-> "client-id",
                        client_secret |-> "client-secret",
                        scope         |-> c.args.scope,
                        refresh_token |-> c.args.refresh_token]]
  /\ (last.op = "refresh_oauth_token" /\ last.response.body.t = "object") =>
       IF "access_token" \in DOMAIN last.response.body.v
       THEN last.ret = Return(last.response.body.v["access_token"])
       ELSE last.ret = Return(None)

\* C6 witness: the response has no access_token and the call returned None.
C6_Witness ==
  /\ last.op = "refresh_oauth_token"
  /\ last.response.body.t = "object"
  /\ "access_token" \notin DOMAIN last.response.body.v
  /\ last.ret = Return(None)

\* The response has an access_token and the call returned it.
C6_PresentWitness ==
  /\ last.op = "refresh_oauth_token"
  /\ last.ret = Return("tok123")

CountRequestCarriesCredentials(c) ==
  /\ c.request.method = "GET"
  /\ c.request.url = "http://localhost:8000/api/get-user-count"
  /\ c.request.params.owner = self.org_name
  /\ c.request.params.clientId = self.client_id
  /\ c.request.params.clientSecret = self.client_secret

\* C7, as stated: with is_online None the request has no online filter,
\* with True the filter is "1", with False it is "0"; owner, clientId and
\* clientSecret are sent in all three cases.
C7_NoneOmitsOnlineFilter ==
  \A c \in InFlight :
    c.op = "get_user_count" =>
      /\ CountRequestCarriesCredentials(c)
      /\ c.args.is_online = None => "isOnline" \notin DOMAIN c.request.params
      /\ c.args.is_online = PyTrue => c.request.params.isOnline = "1"
      /\ c.args.is_online = PyFalse => c.request.params.isOnline = "0"

\* C7, amended: with is_online None the request carries isOnline = "" (an
\* empty filter value, not an omitted parameter), with True "1", with False
\* "0"; owner, clientId and clientSecret are sent in all three cases.
C7_NoneSendsEmptyOnlineFilter ==
  \A c \in InFlight :
    c.op = "get_user_count" =>
      /\ CountRequestCarriesCredentials(c)
      /\ DOMAIN c.request.params
           = {"owner", "clientId", "clientSecret", "isOnline"}
      /\ c.args.is_online = None => c.request.params.isOnline = ""
      /\ c.args.is_online = PyTrue => c.request.params.isOnline = "1"
      /\ c.args.is_online = PyFalse => c.request.params.isOnline = "0"

\* C7 witness: a count request for all users and one for online users are
\* in flight.
C7_Witness ==
  /\ \E c \in InFlight :
       /\ c.op = "get_user_count"
       /\ c.args.is_online = None
       /\ c.request.params.isOnline = ""
  /\ \E c \in InFlight :
       /\ c.op = "get_user_count"
       /\ c.args.is_online = PyTrue
       /\ c.request.params.isOnline = "1"

ModifyOps == {"add_user", "update_user", "delete_user"}

\* C8: add_user, update_user and delete_user send the user with owner
\* overwritten to org_name, id = org_name/name, to /api/add-user,
\* /api/update-user, /api/delete-user; a server that stores what it receives
\* holds only users owned by org_name, and get_user returns such a user.
C8_OwnerForcedToOrgName ==
  /\ \A c \in InFlight :
       c.op \in ModifyOps =>
         /\ c.request.method = "POST"
         /\ c.op = "add_user"
              => c.request.url = self.endpoint \o "/api/add-user"
         /\ c.op = "update_user"
              => c.request.url = self.endpoint \o "/api/update-user"
         /\ c.op = "delete_user"
              => c.request.url = self.endpoint \o "/api/delete-user"
         /\ c.request.params.id
              = self.org_name \o "/" \o heap0[c.args.user].name
         /\ json_loads(c.request.data).owner = self.org_name
         /\ json_loads(c.request.data).name = heap0[c.args.user].name
         /\ heap[c.args.user].owner = self.org_name
  /\ \A id \in DOMAIN server : server[id].owner = self.org_name
  /\ (last.op = "get_user" /\ last.ret.value.t = "object") =>
       last.ret.value.v.owner = self.org_name

\* C8 witness: get_user returned a user that the caller had built with
\* another owner, and the owner returned is org_name.
C8_Witness ==
  /\ last.op = "get_user"
  /\ last.ret.kind = "return"
  /\ last.ret.value.t = "object"
  /\ last.ret.value.v.owner = "org"
  /\ \E u \in 1..MaxUsers :
       /\ heap0[u].owner = "other-org"
       /\ heap0[u].name = last.ret.value.v.name

\* C9: once the SDK is torn down and nothing more is scheduled that could
\* run, the session has been closed exactly once, also when the event loop
\* had ended before the teardown.
C9_SessionClosedExactlyOnce ==
  (sdk = "deleted" /\ (tasks = 0 \/ loop = "stopped"))
    => (closes = 1 /\ session = "closed")

\* C9, the part the code keeps: the session is never closed twice, and
\* never before teardown.
C9_SessionClosedAtMostOnce ==
  /\ closes <= 1
  /\ sdk = "alive" => (closes = 0 /\ session = "open")

\* The request a call sends when it runs alone on the constructed SDK and
\* the objects as the caller built them.
RequestAlone(op, args) ==
  CASE op = "get_oauth_token" -> oauth_token_request(SDK0, args)
    [] op = "refresh_oauth_token" -> refresh_token_request(SDK0, args)
    [] op = "enforce" -> enforce_request(SDK0, args)
    [] op = "get_users" -> get_users_request(SDK0)
    [] op = "get_user" -> get_user_request(SDK0, args)
    [] op = "get_user_count" -> get_user_count_request(SDK0, args)
    [] op \in ModifyOps ->
         modify_user(SDK0, MethodOf(op), heap0[args.user]).request

RequestsAsAlone ==
  \A c \in InFlight : c.request = RequestAlone(c.op, c.args)

====
